---- MODULE Spec2Model ----
(***************************************************************************)
(* A model of termineter's option registry (lib/termineter/options.py):    *)
(* the Option record, the Options container, its add_* declarations,       *)
(* set_callback, set_option with its per-type coercion, and                *)
(* get_missing_options.                                                    *)
(*                                                                         *)
(* Python text is modelled as a sequence of one-character strings, and a   *)
(* Python value as a record tagged with its runtime type, so that the      *)
(* text "12", the int 12 and the float 12.0 are three different values.    *)
(***************************************************************************)
EXTENDS Integers, Sequences, FiniteSets, TLC

VARIABLES
    options,   \* Options._options: a dict from name to Option
    last,      \* observation of the most recent call: what it was given,
               \* what it raised or returned, and the callback invocations
    assigned   \* history: names whose current Option object was given a
               \* default or has had a set_option that stored its value

vars == <<options, last, assigned>>

-----------------------------------------------------------------------------
(* Bounds of the model *)

\* str(n) is offered to set_option for every n in -MaxInt .. MaxInt
MaxInt == 2

-----------------------------------------------------------------------------
(* Python values *)

\* None
None == [t |-> "none", i |-> 0, e |-> 0, s |-> <<>>, b |-> FALSE]
\* a str
Text(s) == [t |-> "str", i |-> 0, e |-> 0, s |-> s, b |-> FALSE]
\* an int
IntV(n) == [t |-> "int", i |-> n, e |-> 0, s |-> <<>>, b |-> FALSE]
\* a bool
BoolV(b) == [t |-> "bool", i |-> 0, e |-> 0, s |-> <<>>, b |-> b]

\* a float, the decimal m / 10^e in lowest terms of e (2.50 is 25 / 10^1)
RECURSIVE FloatV(_, _)
FloatV(m, e) ==
    IF e > 0 /\ m % 10 = 0
    THEN FloatV(m \div 10, e - 1)
    ELSE [t |-> "float", i |-> m, e |-> e, s |-> <<>>, b |-> FALSE]

-----------------------------------------------------------------------------
(* Python text operations *)

UpperCase == <<"A","B","C","D","E","F","G","H","I","J","K","L","M",
               "N","O","P","Q","R","S","T","U","V","W","X","Y","Z">>
LowerCase == <<"a","b","c","d","e","f","g","h","i","j","k","l","m",
               "n","o","p","q","r","s","t","u","v","w","x","y","z">>

\* str.lower() on one character
LowerChar(c) ==
    IF \E k \in 1..Len(UpperCase) : UpperCase[k] = c
    THEN LowerCase[CHOOSE k \in 1..Len(UpperCase) : UpperCase[k] = c]
    ELSE c

\* str.lower()
lower(s) == [k \in 1..Len(s) |-> LowerChar(s[k])]

DecDigits == <<"0","1","2","3","4","5","6","7","8","9">>

\* "sup2" stands for the one character U+00B2 (superscript two): str.isdigit()
\* accepts it, int() and float() do not
IsDecDigit(c) == \E k \in 1..10 : DecDigits[k] = c
IsDigitChar(c) == IsDecDigit(c) \/ c = "sup2"

\* str.isdigit(): non-empty and every character a digit character
isdigit(s) == Len(s) > 0 /\ \A k \in 1..Len(s) : IsDigitChar(s[k])

DigitValue(c) ==
    IF IsDecDigit(c) THEN (CHOOSE k \in 1..10 : DecDigits[k] = c) - 1
    ELSE IF c \in {"a","b","c","d","e","f"}
    THEN 10 + (CHOOSE k \in 1..6 : LowerCase[k] = c) - 1
    ELSE 10 + (CHOOSE k \in 1..6 : UpperCase[k] = c) - 1

IsBaseDigit(c, base) ==
    /\ IsDecDigit(c) \/ c \in {"a","b","c","d","e","f","A","B","C","D","E","F"}
    /\ DigitValue(c) < base

RECURSIVE ParseDigits(_, _)
ParseDigits(s, base) ==
    IF Len(s) = 0 THEN 0
    ELSE ParseDigits(SubSeq(s, 1, Len(s) - 1), base) * base + DigitValue(s[Len(s)])

\* whether int(text, base) parses: digits of the base, non-empty
IntParses(s, base) == Len(s) > 0 /\ \A k \in 1..Len(s) : IsBaseDigit(s[k], base)

\* s.startswith(p)
startswith(s, p) == Len(s) >= Len(p) /\ SubSeq(s, 1, Len(p)) = p

\* s.count(c) for a one-character c
RECURSIVE count(_, _)
count(s, c) ==
    IF Len(s) = 0 THEN 0
    ELSE (IF Head(s) = c THEN 1 ELSE 0) + count(Tail(s), c)

\* s.replace(old, new): every non-overlapping occurrence, leftmost first
RECURSIVE replace(_, _, _)
replace(s, old, new) ==
    IF Len(s) < Len(old) \/ Len(old) = 0 THEN s
    ELSE IF startswith(s, old)
    THEN new \o replace(SubSeq(s, Len(old) + 1, Len(s)), old, new)
    ELSE <<Head(s)>> \o replace(Tail(s), old, new)

\* str(n) for an int n
RECURSIVE NatToText(_)
NatToText(n) ==
    IF n < 10 THEN <<DecDigits[n + 1]>>
    ELSE NatToText(n \div 10) \o <<DecDigits[(n % 10) + 1]>>
str(n) == IF n < 0 THEN <<"-">> \o NatToText(-n) ELSE NatToText(n)

-----------------------------------------------------------------------------
(* string_is_hex, options.py lines 25-28 *)

HexChars == {"0","1","2","3","4","5","6","7","8","9",
             "a","b","c","d","e","f","A","B","C","D","E","F"}

\* what filter(lambda c: c not in '0123456789abcdefABCDEF', string) yields
NotHexChars(string) == SelectSeq(string, LAMBDA c : c \notin HexChars)

\* bool() of the object filter() returns. The module imports collections.abc,
\* so it runs on Python 3 only, where filter() returns an iterator; an
\* iterator defines neither __bool__ nor __len__ and is true whatever it
\* would yield.
FilterObjectTruth(yielded) == TRUE

string_is_hex(string) ==
    IF Len(string) = 0 THEN FALSE
    ELSE ~ FilterObjectTruth(NotHexChars(string))

-----------------------------------------------------------------------------
(* Option, options.py lines 30-39 *)

\* Option.callback: None, or one of two callables: "accept" returns True
\* whatever it is given, "veto" returns False
NoCallback == "none"
Callbacks == {"accept", "veto"}
CallbackReturn(cb, new, old) == cb = "accept"

Option(name, type, help, required, default) ==
    [name |-> name, type |-> type, help |-> help, required |-> required,
     default |-> default, value |-> default, callback |-> NoCallback]

-----------------------------------------------------------------------------
(* The coercion of set_option, options.py lines 150-174 *)

Failed(err) == [err |-> err, stored |-> None, arg |-> None]
\* stored: what option.value is assigned; arg: what the local variable
\* `value` holds when line 175 hands it to the callback
Coerced(stored, arg) == [err |-> "none", stored |-> stored, arg |-> arg]

\* IntOfText with line 159 reading int(value, 16)
IntOfText_Base16(s) ==
    IF IntParses(s, 16) THEN Coerced(IntV(ParseDigits(s, 16)), Text(s))
    ELSE Failed("ValueError")

\* int(value) for a text value
IntOfText(s) ==
    IF IntParses(s, 10) THEN Coerced(IntV(ParseDigits(s, 10)), Text(s))
    ELSE Failed("ValueError")

\* lines 152-159
CoerceInt(raw) ==
    LET value == lower(raw) IN
    IF ~ isdigit(value)
    THEN IF startswith(value, <<"0", "x">>)
            /\ string_is_hex(SubSeq(value, 3, Len(value)))
         THEN IF IntParses(SubSeq(value, 3, Len(value)), 16)
              THEN LET n == ParseDigits(SubSeq(value, 3, Len(value)), 16)
                   IN  Coerced(IntV(n), IntV(n))
              ELSE Failed("ValueError")
         ELSE Failed("TypeError")
    ELSE IntOfText(value)

\* float(value) for a text of digit characters and at most one "."
FloatOfText(s) ==
    LET digits == replace(s, <<".">>, <<>>)
        dot == IF count(s, ".") = 0 THEN Len(s) + 1
               ELSE CHOOSE k \in 1..Len(s) : s[k] = "."
    IN  IF count(s, ".") <= 1 /\ IntParses(digits, 10)
        THEN Coerced(FloatV(ParseDigits(digits, 10),
                            IF dot > Len(s) THEN 0 ELSE Len(s) - dot), Text(s))
        ELSE Failed("ValueError")

\* CoerceFloat with line 165 reading option.value = value
CoerceFloat_Unparsed(value) ==
    IF count(value, ".") > 1 THEN Failed("TypeError")
    ELSE IF ~ isdigit(replace(value, <<".">>, <<>>)) THEN Failed("TypeError")
    ELSE Coerced(Text(value), Text(value))

\* lines 160-165
CoerceFloat(value) ==
    IF count(value, ".") > 1 THEN Failed("TypeError")
    ELSE IF ~ isdigit(replace(value, <<".">>, <<>>)) THEN Failed("TypeError")
    ELSE FloatOfText(value)

\* lines 166-172
CoerceBool(value) ==
    IF lower(value) \in {<<"t","r","u","e">>, <<"1">>, <<"o","n">>}
    THEN Coerced(BoolV(TRUE), Text(value))
    ELSE IF lower(value) \in {<<"f","a","l","s","e">>, <<"0">>, <<"o","f","f">>}
    THEN Coerced(BoolV(FALSE), Text(value))
    ELSE Failed("TypeError")

\* lines 150-174
Coerce(type, value) ==
    IF type \in {"str", "rfile"} THEN Coerced(Text(value), Text(value))
    ELSE IF type = "int" THEN CoerceInt(value)
    ELSE IF type = "flt" THEN CoerceFloat(value)
    ELSE IF type = "bool" THEN CoerceBool(value)
    ELSE Failed("Exception")

\* SetOutcome without line 176: a veto does not put the old value back
SetOutcome_NoRevert(option, raw) ==
    LET old_value == option.value
        c == Coerce(option.type, raw)
        invoked == c.err = "none" /\ option.callback # NoCallback
        vetoed == invoked /\ ~ CallbackReturn(option.callback, c.arg, old_value)
    IN  IF c.err # "none"
        THEN [err |-> c.err, value |-> old_value, ret |-> None,
              calls |-> <<>>, kept |-> FALSE]
        ELSE [err |-> "none", value |-> c.stored, ret |-> old_value,
              calls |-> IF invoked
                        THEN <<[cb |-> option.callback, new |-> c.arg,
                                old |-> old_value, cur |-> c.stored]>>
                        ELSE <<>>,
              kept |-> ~ vetoed]

\* SetOutcome with option.value = value ahead of the type checks, so that a
\* text that fails them is left in the option
SetOutcome_AssignFirst(option, raw) ==
    LET old_value == option.value
        c == Coerce(option.type, raw)
        invoked == c.err = "none" /\ option.callback # NoCallback
        vetoed == invoked /\ ~ CallbackReturn(option.callback, c.arg, old_value)
    IN  IF c.err # "none"
        THEN [err |-> c.err, value |-> Text(raw), ret |-> None,
              calls |-> <<>>, kept |-> FALSE]
        ELSE [err |-> "none",
              value |-> IF vetoed THEN old_value ELSE c.stored,
              ret |-> old_value,
              calls |-> IF invoked
                        THEN <<[cb |-> option.callback, new |-> c.arg,
                                old |-> old_value, cur |-> c.stored]>>
                        ELSE <<>>,
              kept |-> ~ vetoed]

\* What set_option does to one Option, lines 149-177:
\*   err    the exception raised ("none" when it returns)
\*   value  option.value when the call ends
\*   ret    the value returned
\*   calls  the callback invocations, each with the callable, its two
\*          arguments and option.value at the moment of the call
\*   kept   whether the coerced value is what option.value ends as
SetOutcome(option, raw) ==
    LET old_value == option.value
        c == Coerce(option.type, raw)
        invoked == c.err = "none" /\ option.callback # NoCallback
        vetoed == invoked /\ ~ CallbackReturn(option.callback, c.arg, old_value)
    IN  IF c.err # "none"
        THEN [err |-> c.err, value |-> old_value, ret |-> None,
              calls |-> <<>>, kept |-> FALSE]
        ELSE [err |-> "none",
              value |-> IF vetoed THEN old_value ELSE c.stored,
              ret |-> old_value,
              calls |-> IF invoked
                        THEN <<[cb |-> option.callback, new |-> c.arg,
                                old |-> old_value, cur |-> c.stored]>>
                        ELSE <<>>,
              kept |-> ~ vetoed]

-----------------------------------------------------------------------------
(* Options, options.py lines 44-193 *)

\* Options.directories and os.path.sep (a POSIX host)
data_path == <<"/", "d">>
user_data == <<"/", "u">>
sep == <<"/">>

DATA_PATH_TOKEN == <<"$","D","A","T","A","_","P","A","T","H"," ">>
USER_DATA_TOKEN == <<"$","U","S","E","R","_","D","A","T","A"," ">>

\* lines 125-127
SubstituteDefault(default) ==
    IF default.t = "str"
    THEN Text(replace(replace(default.s, DATA_PATH_TOKEN, data_path \o sep),
                      USER_DATA_TOKEN, user_data \o sep))
    ELSE default

\* Stored updating an Option already there instead of replacing it: the
\* callback of the old object survives
Stored_KeepCallback(opts, name, option) ==
    [n \in DOMAIN opts \cup {name} |->
        IF n # name THEN opts[n]
        ELSE IF name \in DOMAIN opts
        THEN [option EXCEPT !.callback = opts[name].callback]
        ELSE option]

\* self._options[name] = option
Stored(opts, name, option) ==
    [n \in DOMAIN opts \cup {name} |-> IF n = name THEN option ELSE opts[n]]

\* get_missing_options testing option.default, as its docstring words it
get_missing_options_ByDefault(opts) ==
    {n \in DOMAIN opts : opts[n].required /\ opts[n].default = None}

\* lines 179-184 (the names are unique, so the list is given as their set)
get_missing_options(opts) ==
    {n \in DOMAIN opts : opts[n].required /\ opts[n].value = None}

\* The observation of a call:
\*   op, name   the method and the option name it was given
\*   raw        the text given to set_option
\*   required, default   the arguments given to an add_* method
\*   replaced   for an add_* method, the callback of the Option object the
\*              name held before ("absent" when the name was new)
\*   err        the exception raised ("none" when the call returned)
\*   ret        the value returned
\*   calls      the callback invocations the call made
NoCall == [op |-> "init", name |-> "", raw |-> <<>>, required |-> FALSE,
           default |-> None, replaced |-> "absent", err |-> "none",
           ret |-> None, calls |-> <<>>]

\* lines 51-56
Init ==
    /\ options = <<>>
    /\ last = NoCall
    /\ assigned = {}

\* the effect shared by the five add_* methods: line 76, 87, 98, 109 or 128
\* (given: the default the caller passed; default: the one the Option gets)
Declare(op, name, type, help, required, given, default) ==
    /\ options' = Stored(options, name, Option(name, type, help, required, default))
    /\ last' = [NoCall EXCEPT !.op = op, !.name = name,
                               !.required = required, !.default = given,
                               !.replaced = IF name \in DOMAIN options
                                            THEN options[name].callback
                                            ELSE "absent"]
    /\ assigned' = IF default # None THEN assigned \cup {name}
                   ELSE assigned \ {name}

add_string(name, help, required, default) ==
    Declare("add_string", name, "str", help, required, default, default)

add_integer(name, help, required, default) ==
    Declare("add_integer", name, "int", help, required, default, default)

add_float(name, help, required, default) ==
    Declare("add_float", name, "flt", help, required, default, default)

add_boolean(name, help, required, default) ==
    Declare("add_boolean", name, "bool", help, required, default, default)

add_rfile(name, help, required, default) ==
    Declare("add_rfile", name, "rfile", help, required, default,
            SubstituteDefault(default))

\* Raised with the lookup answering None for a missing name (dict.get)
\* instead of raising
Raised_Swallowed(op, name, raw, err) ==
    /\ last' = [NoCall EXCEPT !.op = op, !.name = name, !.raw = raw]
    /\ UNCHANGED <<options, assigned>>

\* the lookup self._options[name] of a name that is not a key, lines 59, 193
Raised(op, name, raw, err) ==
    /\ last' = [NoCall EXCEPT !.op = op, !.name = name, !.raw = raw, !.err = err]
    /\ UNCHANGED <<options, assigned>>

\* lines 186-193
get_option(name) ==
    IF name \notin DOMAIN options
    THEN Raised("get_option", name, <<>>, "KeyError")
    ELSE /\ last' = [NoCall EXCEPT !.op = "get_option", !.name = name]
         /\ UNCHANGED <<options, assigned>>

\* lines 58-59
getitem(item) ==
    IF item \notin DOMAIN options
    THEN Raised("getitem", item, <<>>, "KeyError")
    ELSE /\ last' = [NoCall EXCEPT !.op = "getitem", !.name = item,
                                   !.ret = options[item].value]
         /\ UNCHANGED <<options, assigned>>

\* set_callback with the callback kept on the class Option rather than on
\* the instance: every option gets it
set_callback_Shared(name, callback) ==
    IF name \notin DOMAIN options
    THEN Raised("set_callback", name, <<>>, "KeyError")
    ELSE /\ options' = [n \in DOMAIN options |->
                           [options[n] EXCEPT !.callback = callback]]
         /\ last' = [NoCall EXCEPT !.op = "set_callback", !.name = name]
         /\ UNCHANGED assigned

\* lines 130-138
set_callback(name, callback) ==
    IF name \notin DOMAIN options
    THEN Raised("set_callback", name, <<>>, "KeyError")
    ELSE /\ options' = [options EXCEPT ![name].callback = callback]
         /\ last' = [NoCall EXCEPT !.op = "set_callback", !.name = name]
         /\ UNCHANGED assigned

\* lines 140-177
set_option(name, value) ==
    IF name \notin DOMAIN options
    THEN Raised("set_option", name, value, "KeyError")
    ELSE LET out == SetOutcome(options[name], value) IN
         /\ options' = [options EXCEPT ![name].value = out.value]
         /\ last' = [NoCall EXCEPT !.op = "set_option", !.name = name,
                                   !.raw = value, !.err = out.err,
                                   !.ret = out.ret, !.calls = out.calls]
         /\ assigned' = IF out.kept THEN assigned \cup {name} ELSE assigned

-----------------------------------------------------------------------------
(* The calls a host makes *)

\* the names a host declares, and a name it never declares
Names == {"PORT"}
UNDEFINED_NAME == "UNDEFINED_NAME"

Helps == {"help"}

\* the defaults given to the add_* methods, by option type
Defaults ==
    [str |-> {None, Text(<<"a">>)},
     int |-> {None, IntV(0)},
     flt |-> {None, FloatV(25, 1)},
     bool |-> {None, BoolV(FALSE)},
     rfile |-> {None, Text(DATA_PATH_TOKEN \o <<"c">>),
                Text(USER_DATA_TOKEN \o <<"c">>)}]

\* the integers n whose str(n) is handed to set_option
IntInputs == (-MaxInt)..MaxInt \cup {12, 8080}

\* the texts handed to set_option
Raws ==
    {str(n) : n \in IntInputs}
    \cup {<<"0","x","1","F","9","0">>, <<"0","x">>,
          <<"1",".","5">>, <<"1",".","2",".","3">>,
          <<"y","e","s">>, <<"O","N">>, <<"o","f","f">>, <<"sup2">>}

\* every call with its arguments drawn from the given sets
Calls(names, flags, defaults, raws) ==
    \/ \E name \in names, help \in Helps, required \in flags,
          default \in defaults.str : add_string(name, help, required, default)
    \/ \E name \in names, help \in Helps, required \in flags,
          default \in defaults.int : add_integer(name, help, required, default)
    \/ \E name \in names, help \in Helps, required \in flags,
          default \in defaults.flt : add_float(name, help, required, default)
    \/ \E name \in names, help \in Helps, required \in flags,
          default \in defaults.bool : add_boolean(name, help, required, default)
    \/ \E name \in names, help \in Helps, required \in flags,
          default \in defaults.rfile : add_rfile(name, help, required, default)
    \/ \E name \in names \cup {UNDEFINED_NAME},
          callback \in Callbacks \cup {NoCallback} : set_callback(name, callback)
    \/ \E name \in names \cup {UNDEFINED_NAME}, value \in raws :
          set_option(name, value)
    \/ \E name \in names \cup {UNDEFINED_NAME} : get_option(name)
    \/ \E item \in names \cup {UNDEFINED_NAME} : getitem(item)

\* one option name, every declaration and every text
Next == Calls(Names, BOOLEAN, Defaults, Raws)

Spec == Init /\ [][Next]_vars

\* two option names side by side, declared required and without a default,
\* and set from one text every type but Boolean accepts and one none accepts
\* but String and ReadableFilePath
FrameNames == {"PORT", "FILE"}
FrameDefaults == [k \in DOMAIN Defaults |-> {None}]
FrameRaws == {<<"1", "2">>, <<"0", "x">>}

FrameNext == Calls(FrameNames, {TRUE}, FrameDefaults, FrameRaws)

FrameSpec == Init /\ [][FrameNext]_vars

-----------------------------------------------------------------------------
(* Vocabulary of the properties *)

AddOps == {"add_string", "add_integer", "add_float", "add_boolean", "add_rfile"}

\* the runtime type of a value of each option type
NativeTag == [str |-> "str", rfile |-> "str", int |-> "int",
              flt |-> "float", bool |-> "bool"]

\* the most recent call was set_option on the declared option n
SetOn(n) == last.op = "set_option" /\ last.name = n /\ n \in DOMAIN options

\* "0x" followed by one or more hexadecimal digits
IsHexText(raw) ==
    /\ Len(raw) > 2
    /\ SubSeq(raw, 1, 2) = <<"0", "x">>
    /\ \A k \in 3..Len(raw) : raw[k] \in HexChars

-----------------------------------------------------------------------------
(* C1 *)

\* C1: set_option on an Integer option with "0x" followed by hexadecimal
\* digits succeeds and stores the integer the digits denote in base 16; on a
\* required PORT declared without default, "0x1F90" leaves the value 8080
\* and PORT no longer missing.
C1_HexTextIsStored ==
    \A n \in DOMAIN options :
        (SetOn(n) /\ options[n].type = "int" /\ IsHexText(last.raw)) =>
            /\ last.err = "none"
            /\ options[n].callback # "veto" =>
                  options[n].value =
                      IntV(ParseDigits(SubSeq(last.raw, 3, Len(last.raw)), 16))
            /\ (/\ last.raw = <<"0","x","1","F","9","0">>
                /\ options[n].required
                /\ options[n].default = None
                /\ options[n].callback = NoCallback) =>
                  /\ options[n].value = IntV(8080)
                  /\ n \notin get_missing_options(options)

-----------------------------------------------------------------------------
(* C2 *)

\* C2: a set_option that coerces its text on an option with a callback
\* invokes the callback exactly once, with the typed value that was stored
\* as first argument and the value before the call as second, the option
\* already holding the coerced value.
C2_CallbackGetsTypedValue ==
    \A n \in DOMAIN options :
        (SetOn(n) /\ last.err = "none" /\ options[n].callback # NoCallback) =>
            /\ Len(last.calls) = 1
            /\ last.calls[1].cb = options[n].callback
            /\ last.calls[1].new = last.calls[1].cur
            /\ last.calls[1].new.t = NativeTag[options[n].type]
            /\ last.calls[1].old = last.ret

-----------------------------------------------------------------------------
(* C3 *)

-----------------------------------------------------------------------------
(* C4 *)

\* C4: when set_option coerces its text on an option with a callback, the
\* call raises nothing and returns the value the option had before; if the
\* callback returns false the option keeps that value, if it returns true
\* the option holds the coerced value.
C4_VetoRevertsAcceptCommits ==
    [][\A n \in DOMAIN options :
          (/\ last'.op = "set_option"
           /\ last'.name = n
           /\ options[n].callback # NoCallback
           /\ Coerce(options[n].type, last'.raw).err = "none") =>
              /\ last'.err = "none"
              /\ last'.ret = options[n].value
              /\ Len(last'.calls) = 1
              /\ options'[n].value =
                    IF CallbackReturn(options[n].callback, last'.calls[1].new,
                                      last'.calls[1].old)
                    THEN Coerce(options[n].type, last'.raw).stored
                    ELSE options[n].value]_vars

C4_Witness ==
    /\ SetOn("PORT")
    /\ options["PORT"].callback = "veto"
    /\ options["PORT"].type = "flt"
    /\ last.raw = <<"1", ".", "5">>
    /\ last.err = "none"
    /\ Len(last.calls) = 1
    /\ last.ret = FloatV(25, 1)
    /\ options["PORT"].value = FloatV(25, 1)

-----------------------------------------------------------------------------
(* C5 *)

-----------------------------------------------------------------------------
(* C6 *)

\* C6: a set_option whose text cannot be coerced to the option's type
\* (among them Float "1.2.3", Integer "0x", Boolean "yes") raises, leaves
\* the registry as it was and invokes no callback.
C6_FailedSetChangesNothing ==
    [][\A n \in DOMAIN options :
          (last'.op = "set_option" /\ last'.name = n) =>
              /\ (\/ options[n].type = "flt" /\ last'.raw = <<"1",".","2",".","3">>
                  \/ options[n].type = "int" /\ last'.raw = <<"0","x">>
                  \/ options[n].type = "bool" /\ last'.raw = <<"y","e","s">>)
                 => last'.err = "TypeError"
              /\ last'.err # "none" =>
                    /\ options' = options
                    /\ last'.calls = <<>>]_vars

C6_Witness ==
    /\ SetOn("PORT")
    /\ options["PORT"].type = "flt"
    /\ options["PORT"].callback = "accept"
    /\ last.raw = <<"1",".","2",".","3">>
    /\ last.err = "TypeError"
    /\ options["PORT"].value = FloatV(12, 0)

-----------------------------------------------------------------------------
(* C7 *)

\* C7: set_option, registry[name], get_option and set_callback on a name
\* that is not declared raise the unknown-option error (KeyError) and leave
\* the registry unchanged.
C7_UnknownNameRaises ==
    [][(/\ last'.op \in {"set_option", "getitem", "get_option", "set_callback"}
        /\ last'.name \notin DOMAIN options) =>
            /\ last'.err = "KeyError"
            /\ options' = options]_vars

C7_Witness ==
    /\ last.op = "set_callback"
    /\ last.name = UNDEFINED_NAME
    /\ last.err = "KeyError"
    /\ DOMAIN options = {"PORT"}

-----------------------------------------------------------------------------
(* C8 *)

\* the default an add_rfile stores for each default the model hands it
ExpectedFileDefault(given) ==
    IF given = Text(DATA_PATH_TOKEN \o <<"c">>) THEN Text(<<"/","d","/","c">>)
    ELSE IF given = Text(USER_DATA_TOKEN \o <<"c">>) THEN Text(<<"/","u","/","c">>)
    ELSE given

\* C8: right after any add_* call, whether or not the name was declared
\* before, the option's value is the new default (placeholders substituted
\* for a file path), its type and required flag are the new declaration's,
\* and it has no callback; a set_option on an option that has no callback
\* invokes none and stores what it coerced.
C8_DeclarationReplaces ==
    /\ \A n \in DOMAIN options :
          (SetOn(n) /\ options[n].callback = NoCallback /\ last.err = "none") =>
              /\ last.calls = <<>>
              /\ options[n].value = Coerce(options[n].type, last.raw).stored
    /\ last.op \in AddOps =>
        /\ last.name \in DOMAIN options
        /\ LET o == options[last.name]
               expected == IF last.op = "add_rfile"
                           THEN ExpectedFileDefault(last.default)
                           ELSE last.default
           IN  /\ o.value = expected
               /\ o.default = expected
               /\ o.required = last.required
               /\ o.callback = NoCallback
               /\ o.type = CASE last.op = "add_string" -> "str"
                             [] last.op = "add_integer" -> "int"
                             [] last.op = "add_float" -> "flt"
                             [] last.op = "add_boolean" -> "bool"
                             [] last.op = "add_rfile" -> "rfile"

\* a file-path declaration over an option that had a vetoing callback
C8_Witness ==
    /\ last.op = "add_rfile"
    /\ last.replaced = "veto"
    /\ last.default = Text(DATA_PATH_TOKEN \o <<"c">>)
    /\ options["PORT"].value = Text(<<"/","d","/","c">>)

-----------------------------------------------------------------------------
(* C9 *)

\* C9: the value and the default of every option are each None or of the
\* runtime type of the option's type; an Integer, Float or Boolean option
\* never holds text.
C9_ValuesAreNative ==
    \A n \in DOMAIN options :
        /\ options[n].value = None \/ options[n].value.t = NativeTag[options[n].type]
        /\ options[n].default = None \/ options[n].default.t = NativeTag[options[n].type]

C9_Witness ==
    /\ SetOn("PORT")
    /\ options["PORT"].type = "bool"
    /\ last.raw = <<"O", "N">>
    /\ options["PORT"].value = BoolV(TRUE)

-----------------------------------------------------------------------------
(* C10 *)

\* C10: set_option changes at most the value of the option it names, and
\* set_callback changes at most the callback of the option it names and
\* invokes nothing; the declared names stay the same.
C10_Frame ==
    [][/\ last'.op = "set_option" =>
             /\ DOMAIN options' = DOMAIN options
             /\ \A n \in DOMAIN options :
                   options'[n] =
                       IF n = last'.name
                       THEN [options[n] EXCEPT !.value = options'[n].value]
                       ELSE options[n]
       /\ last'.op = "set_callback" =>
             /\ DOMAIN options' = DOMAIN options
             /\ last'.calls = <<>>
             /\ \A n \in DOMAIN options :
                   options'[n] =
                       IF n = last'.name
                       THEN [options[n] EXCEPT !.callback = options'[n].callback]
                       ELSE options[n]]_vars

\* a set_option that stored a value while another option is declared
C10_Witness ==
    /\ DOMAIN options = {"PORT", "FILE"}
    /\ SetOn("PORT")
    /\ options["PORT"].value = IntV(12)
    /\ options["FILE"].value = Text(<<"0", "x">>)
    /\ options["FILE"].callback = "veto"

====
